---- MODULE Spec2Model ----
\* Model of src/src/offchain/offchain-utils.ts: the compaction of a signed
\* offchain attestation package into the fixed 18-slot tuple, its inverse, and
\* the text pipeline (JSON, deflate, base64) built on the two.
EXTENDS Integers, Sequences, FiniteSets, TLC

\* ---------------------------------------------------------------------------
\* JavaScript values.  Every value is a record of the same three fields so that
\* values of different JavaScript types can be compared with "=" (JS "===").
\* ---------------------------------------------------------------------------
Undef == [t |-> "undefined", s |-> "", n |-> 0]
Null == [t |-> "null", s |-> "", n |-> 0]
Str(a) == [t |-> "string", s |-> a, n |-> 0]
Num(k) == [t |-> "number", s |-> "", n |-> k]
BigI(k) == [t |-> "bigint", s |-> "", n |-> k]
Bool(b) == [t |-> "boolean", s |-> "", n |-> IF b THEN 1 ELSE 0]

\* Reading a property of an object: an absent key reads as undefined.
Get(o, k) == IF k \in DOMAIN o THEN o[k] ELSE Undef

\* JavaScript truthiness (the condition of "compacted[16] ? ... : ...").
Truthy(v) ==
  CASE v.t = "undefined" -> FALSE
    [] v.t = "null" -> FALSE
    [] v.t = "number" -> v.n # 0
    [] v.t = "bigint" -> v.n # 0
    [] v.t = "boolean" -> v.n = 1
    [] v.t = "string" -> v.s # ""

Digit(d) ==
  CASE d = 0 -> "0" [] d = 1 -> "1" [] d = 2 -> "2" [] d = 3 -> "3"
    [] d = 4 -> "4" [] d = 5 -> "5" [] d = 6 -> "6" [] d = 7 -> "7"
    [] d = 8 -> "8" [] d = 9 -> "9"

\* Decimal text of a non-negative integer (bigint.toString(), and the text of
\* a number inside a template string).
RECURSIVE Decimal(_)
Decimal(k) == IF k < 10 THEN Digit(k) ELSE Decimal(k \div 10) \o Digit(k % 10)

\* `${value}` of a template string.
TemplateText(v) ==
  CASE v.t = "string" -> v.s
    [] v.t = "number" -> Decimal(v.n)
    [] v.t = "bigint" -> Decimal(v.n)
    [] v.t = "boolean" -> (IF v.n = 1 THEN "true" ELSE "false")
    [] v.t = "null" -> "null"
    [] v.t = "undefined" -> "undefined"

\* ---------------------------------------------------------------------------
\* Constants of the program
\* ---------------------------------------------------------------------------
ZeroAddress == "0x0000000000000000000000000000000000000000"
ZeroHash == "0x0000000000000000000000000000000000000000000000000000000000000000"

\* enum OffchainAttestationVersion (src/offchain/offchain.ts)
Legacy == 0
Version1 == 1
Version2 == 2

DomainName == "EAS Attestation"

\* ---------------------------------------------------------------------------
\* Bounds of the model
\* ---------------------------------------------------------------------------
MaxTime == 1
MaxSlotVersion == 3

Times == 0 .. MaxTime
ChainIds == {1, 11155111}
\* integers whose decimal text BigInt(string) is asked to read in the model
DecimalDomain == ChainIds \cup Times

AddrA == "0xAb5801a7D398351b8bE11C439e05C5B3259aeC9B"
AddrSigner == "0x1e3de6aE412cA218FD2ae3379750388D414532dc"
AddrContract == "0xC2679fBD37d54388Ce493F1DB75320D236e1815e"
HashA == "0x1111111111111111111111111111111111111111111111111111111111111111"
HashSchema == "0x2222222222222222222222222222222222222222222222222222222222222222"
HashUid == "0x3333333333333333333333333333333333333333333333333333333333333333"
HashR == "0x4444444444444444444444444444444444444444444444444444444444444444"
HashS == "0x5555555555555555555555555555555555555555555555555555555555555555"
SaltA == "0xabcdabcdabcdabcdabcdabcdabcdabcdabcdabcdabcdabcdabcdabcdabcdabcd"

Recipients == {ZeroAddress, AddrA}
RefUIDs == {ZeroHash, HashA}

\* ---------------------------------------------------------------------------
\* Typed-data field lists
\* ---------------------------------------------------------------------------
Field(name, type) == [name |-> name, type |-> type]

BaseFields ==
  << Field("schema", "bytes32"), Field("recipient", "address"),
     Field("time", "uint64"), Field("expirationTime", "uint64"),
     Field("revocable", "bool"), Field("refUID", "bytes32"),
     Field("data", "bytes") >>

VersionField == Field("version", "uint16")
SaltField == Field("salt", "bytes32")

\* The field list and primary type a signer of version ver signs with
\* (the Version Registry of the specification; the inputs are built from it).
SignedTypes(ver) ==
  CASE ver = Legacy -> [Attest |-> BaseFields]
    [] ver = Version1 -> [Attest |-> <<VersionField>> \o BaseFields]
    [] ver = Version2 -> [Attest |-> <<VersionField>> \o BaseFields \o <<SaltField>>]

SignedPrimaryType(ver) == IF ver = Legacy THEN "Attestation" ELSE "Attest"

\* ---------------------------------------------------------------------------
\* Input packages (AttestationShareablePackageObject)
\* ---------------------------------------------------------------------------
BaseKeys == {"schema", "recipient", "time", "expirationTime", "revocable", "refUID", "data"}

\* message of a package; hasVer / hasSalt say whether the keys version / salt exist
Message(ver, hasVer, hasSalt, recipient, time, exp, revocable, refUID) ==
  [k \in BaseKeys \cup (IF hasVer THEN {"version"} ELSE {}) \cup (IF hasSalt THEN {"salt"} ELSE {}) |->
     CASE k = "schema" -> Str(HashSchema)
       [] k = "recipient" -> Str(recipient)
       [] k = "time" -> BigI(time)
       [] k = "expirationTime" -> BigI(exp)
       [] k = "revocable" -> Bool(revocable)
       [] k = "refUID" -> Str(refUID)
       [] k = "data" -> Str("0x1234")
       [] k = "version" -> Num(ver)
       [] k = "salt" -> Str(SaltA)]

Domain(chainId) ==
  [name |-> Str(DomainName), version |-> Str("0.26"), chainId |-> BigI(chainId),
   verifyingContract |-> Str(AddrContract)]

\* current nested shape (SignedOffchainAttestation)
NestedSig(ver, msg, chainId) ==
  [version |-> Num(ver), domain |-> Domain(chainId),
   primaryType |-> Str(SignedPrimaryType(ver)), types |-> SignedTypes(ver),
   signature |-> [r |-> Str(HashR), s |-> Str(HashS), v |-> Num(27)],
   uid |-> Str(HashUid), message |-> msg]

\* flat shape (SignedOffchainAttestationV1): r, s, v at the top level, no
\* version and no signature key
FlatSig(msg, chainId) ==
  [domain |-> Domain(chainId),
   primaryType |-> Str(SignedPrimaryType(Version1)), types |-> SignedTypes(Version1),
   r |-> Str(HashR), s |-> Str(HashS), v |-> Num(27),
   uid |-> Str(HashUid), message |-> msg]

Package(sig) == [sig |-> sig, signer |-> Str(AddrSigner)]

\* Nested packages: the message of a V1 or V2 package carries its version (it
\* is a signed field there); a Legacy message may or may not carry it; salt
\* exists from V2 on.
NestedPackages ==
  { Package(NestedSig(ver, Message(ver, hasVer, ver = Version2, rc, tm, ex, rv, ru), ch)) :
      ver \in {Legacy, Version1, Version2}, hasVer \in BOOLEAN, rc \in Recipients,
      tm \in Times, ex \in Times, rv \in BOOLEAN, ru \in RefUIDs, ch \in ChainIds }

WellFormedNested(p) ==
  p.sig.version.n # Legacy => "version" \in DOMAIN p.sig.message

\* Flat packages: no version at the top level; the message may carry V1 or
\* no version at all.
FlatPackages ==
  { Package(FlatSig(Message(Version1, hasVer, FALSE, rc, tm, ex, rv, ru), ch)) :
      hasVer \in BOOLEAN, rc \in Recipients,
      tm \in Times, ex \in Times, rv \in BOOLEAN, ru \in RefUIDs, ch \in ChainIds }

Packages == { p \in NestedPackages : WellFormedNested(p) } \cup FlatPackages

\* ---------------------------------------------------------------------------
\* Conversions used by the two directions
\* ---------------------------------------------------------------------------
\* Number(x) for the time fields, exact within the safe-integer range the
\* model stays in.
ToNumber(x) ==
  CASE x.t = "bigint" -> Num(x.n)
    [] x.t = "number" -> x
    [] x.t = "boolean" -> Num(x.n)
    [] x.t = "null" -> Num(0)
    [] OTHER -> [t |-> "number", s |-> "NaN", n |-> 0]

IsDecimalText(s) == \E k \in DecimalDomain : Decimal(k) = s
ParseDecimal(s) == CHOOSE k \in DecimalDomain : Decimal(k) = s

Throws(name, message) == [threw |-> TRUE, name |-> name, message |-> message]

BigInt_NoConversion(x) == x

\* BigInt(x): a value, or the error it throws
BigInt(x) ==
  CASE x.t = "bigint" -> x
    [] x.t = "number" /\ x.s = "" -> BigI(x.n)
    [] x.t = "boolean" -> BigI(x.n)
    [] x.t = "string" /\ IsDecimalText(x.s) -> BigI(ParseDecimal(x.s))
    [] x.t = "string" /\ ~IsDecimalText(x.s) -> Throws("SyntaxError", "Cannot convert " \o x.s \o " to a BigInt")
    [] OTHER -> Throws("TypeError", "Cannot convert " \o TemplateText(x) \o " to a BigInt")

IsThrow(x) == "threw" \in DOMAIN x

\* ---------------------------------------------------------------------------
\* Legacy adapter
\* ---------------------------------------------------------------------------
isSignedOffchainAttestationV1(attestation) ==
  "v" \in DOMAIN attestation /\ "r" \in DOMAIN attestation /\ "s" \in DOMAIN attestation

convertV1AttestationToV2_TagV2(attestation) ==
  [k \in (DOMAIN attestation \ {"v", "r", "s"}) \cup {"version", "signature"} |->
     CASE k = "version" -> Num(Version2)
       [] k = "signature" -> [v |-> attestation.v, r |-> attestation.r, s |-> attestation.s]
       [] OTHER -> attestation[k]]

convertV1AttestationToV2(attestation) ==
  [k \in (DOMAIN attestation \ {"v", "r", "s"}) \cup {"version", "signature"} |->
     CASE k = "version" -> Num(Version1)
       [] k = "signature" -> [v |-> attestation.v, r |-> attestation.r, s |-> attestation.s]
       [] OTHER -> attestation[k]]

\* the local sig of compactOffchainAttestationPackage after lines 69-73
NormalizedSig(pkg) ==
  IF isSignedOffchainAttestationV1(pkg.sig) THEN convertV1AttestationToV2(pkg.sig) ELSE pkg.sig

\* ---------------------------------------------------------------------------
\* Compactor
\* ---------------------------------------------------------------------------
RecipientSlot_ZeroHash(recipient) == IF recipient = Str(ZeroHash) THEN Str("0") ELSE recipient

RecipientSlot(recipient) == IF recipient = Str(ZeroAddress) THEN Str("0") ELSE recipient

RefUIDSlot(refUID) == IF refUID = Str(ZeroHash) THEN Str("0") ELSE refUID

compactOffchainAttestationPackage_OmitAbsent(pkg) ==
  LET sig == NormalizedSig(pkg)
      head == << Get(sig.domain, "version"), Get(sig.domain, "chainId"),
                 Get(sig.domain, "verifyingContract"),
                 Get(sig.signature, "r"), Get(sig.signature, "s"), Get(sig.signature, "v"),
                 Get(pkg, "signer"), Get(sig, "uid"), Get(sig.message, "schema"),
                 RecipientSlot(Get(sig.message, "recipient")),
                 ToNumber(Get(sig.message, "time")),
                 ToNumber(Get(sig.message, "expirationTime")),
                 RefUIDSlot(Get(sig.message, "refUID")),
                 Get(sig.message, "revocable"), Get(sig.message, "data"), Num(0) >>
  IN head \o (IF "version" \in DOMAIN sig.message THEN <<sig.message.version>> ELSE <<>>)
          \o (IF "salt" \in DOMAIN sig.message THEN <<sig.message.salt>> ELSE <<>>)

compactOffchainAttestationPackage(pkg) ==
  LET sig == NormalizedSig(pkg)
  IN << Get(sig.domain, "version"),
        Get(sig.domain, "chainId"),
        Get(sig.domain, "verifyingContract"),
        Get(sig.signature, "r"),
        Get(sig.signature, "s"),
        Get(sig.signature, "v"),
        Get(pkg, "signer"),
        Get(sig, "uid"),
        Get(sig.message, "schema"),
        RecipientSlot(Get(sig.message, "recipient")),
        ToNumber(Get(sig.message, "time")),
        ToNumber(Get(sig.message, "expirationTime")),
        RefUIDSlot(Get(sig.message, "refUID")),
        Get(sig.message, "revocable"),
        Get(sig.message, "data"),
        Num(0),
        Get(sig.message, "version"),
        Get(sig.message, "salt") >>

\* slot k of a tuple (slots are numbered from 0)
Slot(compacted, k) == IF k + 1 \in DOMAIN compacted THEN compacted[k + 1] ELSE Undef

\* ---------------------------------------------------------------------------
\* Decompactor
\* ---------------------------------------------------------------------------
ResolveVersion_UndefinedOnly(compacted) ==
  IF Slot(compacted, 16) # Undef THEN Slot(compacted, 16) ELSE Num(Legacy)

\* line 100: compacted[16] ? compacted[16] : Legacy
ResolveVersion(compacted) ==
  IF Truthy(Slot(compacted, 16)) THEN Slot(compacted, 16) ELSE Num(Legacy)

AttestTypes_NoDefault(version) ==
  CASE version = Num(Version1) -> [Attest |-> <<VersionField>> \o BaseFields]
    [] version = Num(Version2) -> [Attest |-> <<VersionField>> \o BaseFields \o <<SaltField>>]
    [] OTHER -> [Attest |-> BaseFields]

AttestTypes_V2NoSalt(version) ==
  CASE version = Num(Legacy) -> [Attest |-> BaseFields]
    [] version = Num(Version1) -> [Attest |-> <<VersionField>> \o BaseFields]
    [] version = Num(Version2) -> [Attest |-> <<VersionField>> \o BaseFields]
    [] OTHER -> Throws("Error", "Unsupported version: " \o TemplateText(version))

\* lines 102-167: the field list chosen by the switch, or the error of its
\* default branch (case labels compare with ===)
AttestTypes(version) ==
  CASE version = Num(Legacy) -> [Attest |-> BaseFields]
    [] version = Num(Version1) -> [Attest |-> <<VersionField>> \o BaseFields]
    [] version = Num(Version2) -> [Attest |-> <<VersionField>> \o BaseFields \o <<SaltField>>]
    [] OTHER -> Throws("Error", "Unsupported version: " \o TemplateText(version))

PrimaryType(version) == IF version = Num(Legacy) THEN Str("Attestation") ELSE Str("Attest")

FromRecipientSlot(x) == IF x = Str("0") THEN Str(ZeroAddress) ELSE x

FromRefUIDSlot(x) == IF x = Str("0") THEN Str(ZeroHash) ELSE x

\* the package returned, or the error thrown (the first one in evaluation order)
uncompactOffchainAttestationPackage(compacted) ==
  LET version == ResolveVersion(compacted)
      attestTypes == AttestTypes(version)
      chainId == BigInt(Slot(compacted, 1))
      time == BigInt(Slot(compacted, 10))
      expirationTime == BigInt(Slot(compacted, 11))
  IN CASE IsThrow(attestTypes) -> attestTypes
       [] ~IsThrow(attestTypes) /\ IsThrow(chainId) -> chainId
       [] ~IsThrow(attestTypes) /\ ~IsThrow(chainId) /\ IsThrow(time) -> time
       [] ~IsThrow(attestTypes) /\ ~IsThrow(chainId) /\ ~IsThrow(time) /\ IsThrow(expirationTime) ->
            expirationTime
       [] OTHER ->
            [sig |->
               [version |-> version,
                domain |-> [name |-> Str(DomainName),
                            version |-> Slot(compacted, 0),
                            chainId |-> chainId,
                            verifyingContract |-> Slot(compacted, 2)],
                primaryType |-> PrimaryType(version),
                types |-> attestTypes,
                signature |-> [r |-> Slot(compacted, 3),
                               s |-> Slot(compacted, 4),
                               v |-> Slot(compacted, 5)],
                uid |-> Slot(compacted, 7),
                message |-> [version |-> version,
                             schema |-> Slot(compacted, 8),
                             recipient |-> FromRecipientSlot(Slot(compacted, 9)),
                             time |-> time,
                             expirationTime |-> expirationTime,
                             refUID |-> FromRefUIDSlot(Slot(compacted, 12)),
                             revocable |-> Slot(compacted, 13),
                             data |-> Slot(compacted, 14),
                             salt |-> Slot(compacted, 17)]],
             signer |-> Slot(compacted, 6)]

\* ---------------------------------------------------------------------------
\* Codec.  The JSON text is kept as the sequence of the JSON values of its
\* array; deflate and base64 wrap it and their inverses unwrap it.
\* ---------------------------------------------------------------------------
\* one array element of JSON.stringify with the replacer of line 49
JSONElement(value) ==
  CASE value.t = "bigint" -> Str(Decimal(value.n))
    [] value.t = "undefined" -> Null
    [] value.t = "number" /\ value.s # "" -> Null
    [] OTHER -> value

\* the JSON text of one value
JSONText(value) ==
  CASE value.t = "string" -> "\"" \o value.s \o "\""
    [] value.t = "number" -> Decimal(value.n)
    [] value.t = "boolean" -> (IF value.n = 1 THEN "true" ELSE "false")
    [] value.t = "null" -> "null"

\* the texts of the elements of the array, in order
JSONstringify(compacted) == [i \in DOMAIN compacted |-> JSONText(JSONElement(compacted[i]))]

\* the values a JSON text of the model can denote
JSONValues ==
  { Str(a) : a \in {ZeroAddress, ZeroHash, AddrA, AddrSigner, AddrContract, HashA, HashSchema,
                    HashUid, HashR, HashS, SaltA, "0", "0.26", "0x1234"}
                   \cup { Decimal(k) : k \in DecimalDomain } }
  \cup { Num(k) : k \in Times \cup {Legacy, Version1, Version2, 27} }
  \cup { Bool(b) : b \in BOOLEAN } \cup {Null}

\* JSON.parse of one element: the value whose text it is
JSONparseElement(text) == CHOOSE value \in JSONValues : JSONText(value) = text

JSONparse(jsonStr) == [i \in DOMAIN jsonStr |-> JSONparseElement(jsonStr[i])]

Deflate(jsoned) == [deflated |-> jsoned, level |-> 9]
Inflate(gzipped) == gzipped.deflated
Base64fromUint8Array(bytes) == [base64 |-> bytes]
Base64toUint8Array(text) == text.base64

zipAndEncodeToBase64(pkg) ==
  Base64fromUint8Array(Deflate(JSONstringify(compactOffchainAttestationPackage(pkg))))

\* the tuple parsed at line 60
ParsedTuple(base64) == JSONparse(Inflate(Base64toUint8Array(base64)))

decodeBase64ZippedBase64(base64) == uncompactOffchainAttestationPackage(ParsedTuple(base64))

\* ---------------------------------------------------------------------------
\* Tuples handed to the decompactor by a caller (not produced by the compactor)
\* ---------------------------------------------------------------------------
SamplePackage ==
  Package(NestedSig(Version2, Message(Version2, TRUE, TRUE, AddrA, 1, 0, TRUE, HashA), 1))

SlotVersions == {Undef, Null, Str("1"), Num(99)} \cup { Num(k) : k \in 0 .. MaxSlotVersion }

ForeignTuples ==
  { [compactOffchainAttestationPackage(SamplePackage) EXCEPT ![10] = rc, ![13] = ru, ![17] = ver, ![18] = salt] :
      rc \in {Str("0"), Num(0), Str(AddrA), Str(ZeroAddress)}, ru \in {Str("0"), Str(HashA)},
      ver \in SlotVersions, salt \in {Undef, Null, Str(SaltA)} }
  \cup { SubSeq(compactOffchainAttestationPackage(SamplePackage), 1, 16) }

\* ---------------------------------------------------------------------------
\* State machine: one call of each public operation on one input
\* ---------------------------------------------------------------------------
VARIABLES pc, pkg, sig, compacted, base64, out

vars == <<pc, pkg, sig, compacted, base64, out>>

NoPkg == [none |-> "pkg"]
NoSig == [none |-> "sig"]
NoText == [none |-> "text"]
NoOut == [none |-> "out"]

Init ==
  /\ sig = NoSig
  /\ base64 = NoText
  /\ out = NoOut
  /\ \/ pc = "start" /\ pkg \in Packages /\ compacted = <<>>
     \/ pc = "tuple" /\ pkg = NoPkg /\ compacted \in ForeignTuples

\* compactOffchainAttestationPackage(pkg)
Compact ==
  /\ pc = "start"
  /\ sig' = NormalizedSig(pkg)
  /\ compacted' = compactOffchainAttestationPackage(pkg)
  /\ pc' = "compacted"
  /\ UNCHANGED <<pkg, base64, out>>

\* uncompactOffchainAttestationPackage(compacted)
Uncompact ==
  /\ pc \in {"compacted", "tuple"}
  /\ out' = uncompactOffchainAttestationPackage(compacted)
  /\ pc' = "uncompacted"
  /\ UNCHANGED <<pkg, sig, compacted, base64>>

\* zipAndEncodeToBase64(pkg)
ZipAndEncode ==
  /\ pc = "start"
  /\ sig' = NormalizedSig(pkg)
  /\ compacted' = compactOffchainAttestationPackage(pkg)
  /\ base64' = zipAndEncodeToBase64(pkg)
  /\ pc' = "encoded"
  /\ UNCHANGED <<pkg, out>>

\* decodeBase64ZippedBase64(base64)
Decode ==
  /\ pc = "encoded"
  /\ compacted' = ParsedTuple(base64)
  /\ out' = decodeBase64ZippedBase64(base64)
  /\ pc' = "decoded"
  /\ UNCHANGED <<pkg, sig, base64>>

Next == Compact \/ Uncompact \/ ZipAndEncode \/ Decode

Spec == Init /\ [][Next]_vars

\* ---------------------------------------------------------------------------
\* Properties
\* ---------------------------------------------------------------------------
HasPackage == pkg # NoPkg
IsFlat(p) == {"v", "r", "s"} \subseteq DOMAIN p.sig
Compacted == pc \in {"compacted", "encoded"} /\ HasPackage
Returned == pc \in {"uncompacted", "decoded"}
Succeeded == Returned /\ ~IsThrow(out)

SigKeys == {"version", "domain", "primaryType", "types", "signature", "uid"}
MessageKeys == BaseKeys \cup {"version", "salt"}

\* o and p agree on the signer, on every field of sig and on the message
\* fields in keys, an absent field reading as undefined
SameExceptMessage(o, p, keys) ==
  /\ o.signer = p.signer
  /\ \A k \in SigKeys \cup ((DOMAIN o.sig \cup DOMAIN p.sig) \ {"message"}) :
       Get(o.sig, k) = Get(p.sig, k)
  /\ \A k \in keys : Get(o.sig.message, k) = Get(p.sig.message, k)

SamePackage(o, p) ==
  SameExceptMessage(o, p, MessageKeys \cup DOMAIN o.sig.message \cup DOMAIN p.sig.message)

\* C1 as stated: decompacting the compaction of a nested Legacy, V1 or V2
\* package returns a package equal to it in every field.
C1_RoundTripExact ==
  (pc = "uncompacted" /\ HasPackage /\ ~IsFlat(pkg)) =>
     (~IsThrow(out) /\ SamePackage(out, pkg))

\* C1 amended: decompacting the compaction of a nested Legacy, V1 or V2 package
\* returns a package equal to it in the signer, in every field of sig and in
\* every message field other than version, and message.version of the result
\* is the package's version tag sig.version, also when the message of the
\* (Legacy) input carried no version.
C1_RoundTripUpToMessageVersion ==
  (pc = "uncompacted" /\ HasPackage /\ ~IsFlat(pkg)) =>
     /\ ~IsThrow(out)
     /\ SameExceptMessage(out, pkg, (MessageKeys \cup DOMAIN out.sig.message \cup DOMAIN pkg.sig.message) \ {"version"})
     /\ out.sig.message.version = pkg.sig.version

C1_Witness ==
  /\ pc = "uncompacted" /\ HasPackage /\ ~IsFlat(pkg)
  /\ pkg.sig.version = Num(Legacy) /\ "version" \notin DOMAIN pkg.sig.message
  /\ pkg.sig.message.time = BigI(1)
  /\ ~IsThrow(out) /\ out.sig.message.version = Num(Legacy) /\ out.sig.message.time = BigI(1)

\* C2: decoding the text that zipAndEncodeToBase64 made of a nested Legacy, V1
\* or V2 package returns a package equal to it in every field, the absent
\* trailing version and salt included.
C2_TextRoundTripExact ==
  (pc = "decoded" /\ HasPackage /\ ~IsFlat(pkg)) =>
     (~IsThrow(out) /\ SamePackage(out, pkg))

\* C3: compacting a flat package that carries no version at its top level
\* gives a tuple whose slot 16 is the V1 tag, and decompacting that tuple
\* yields version V1.
C3_FlatIsV1 ==
  /\ (Compacted /\ IsFlat(pkg) /\ "version" \notin DOMAIN pkg.sig) =>
        Slot(compacted, 16) = Num(Version1)
  /\ (Returned /\ HasPackage /\ IsFlat(pkg) /\ "version" \notin DOMAIN pkg.sig) =>
        (~IsThrow(out) /\ out.sig.version = Num(Version1))

\* C4: slot 9 of compact(P) is "0" exactly when P's recipient is the zero
\* address and is the recipient otherwise, slot 12 is "0" exactly when P's
\* refUID is the zero hash and is the refUID otherwise; decompact turns a slot
\* 9 of "0" into the zero address and a slot 12 of "0" into the zero hash and
\* returns every other value of the two slots as it is.
C4_SentinelExact ==
  /\ Compacted =>
       /\ (Slot(compacted, 9) = Str("0")) <=> (pkg.sig.message.recipient = Str(ZeroAddress))
       /\ pkg.sig.message.recipient # Str(ZeroAddress) => Slot(compacted, 9) = pkg.sig.message.recipient
       /\ (Slot(compacted, 12) = Str("0")) <=> (pkg.sig.message.refUID = Str(ZeroHash))
       /\ pkg.sig.message.refUID # Str(ZeroHash) => Slot(compacted, 12) = pkg.sig.message.refUID
  /\ Succeeded =>
       /\ Slot(compacted, 9) = Str("0") => out.sig.message.recipient = Str(ZeroAddress)
       /\ Slot(compacted, 9) # Str("0") => out.sig.message.recipient = Slot(compacted, 9)
       /\ Slot(compacted, 12) = Str("0") => out.sig.message.refUID = Str(ZeroHash)
       /\ Slot(compacted, 12) # Str("0") => out.sig.message.refUID = Slot(compacted, 12)

C4_Witness ==
  /\ pc = "uncompacted" /\ HasPackage
  /\ pkg.sig.message.recipient = Str(ZeroAddress) /\ pkg.sig.message.refUID = Str(HashA)
  /\ Slot(compacted, 9) = Str("0") /\ Slot(compacted, 12) = Str(HashA)
  /\ ~IsThrow(out) /\ out.sig.message.recipient = Str(ZeroAddress)

\* the version a tuple resolves to: slot 16 if truthy, otherwise the Legacy tag
Resolved == IF Truthy(Slot(compacted, 16)) THEN Slot(compacted, 16) ELSE Num(Legacy)
Supported == Resolved \in {Num(Legacy), Num(Version1), Num(Version2)}
IsUnsupportedError(e) ==
  IsThrow(e) /\ e.name = "Error" /\ e.message = "Unsupported version: " \o TemplateText(Resolved)

\* C5: decompacting a tuple whose resolved version is not Legacy, V1 or V2
\* throws an error whose message names the offending value and returns no
\* package; for a tuple whose resolved version is one of the three tags that
\* error is not thrown.
C5_UnsupportedVersionThrows ==
  Returned => (IsUnsupportedError(out) <=> ~Supported)

C5_Witness ==
  /\ pc = "uncompacted" /\ Slot(compacted, 16) = Num(99)
  /\ IsThrow(out) /\ out.message = "Unsupported version: 99"

ExpectedBase ==
  << [name |-> "schema", type |-> "bytes32"], [name |-> "recipient", type |-> "address"],
     [name |-> "time", type |-> "uint64"], [name |-> "expirationTime", type |-> "uint64"],
     [name |-> "revocable", type |-> "bool"], [name |-> "refUID", type |-> "bytes32"],
     [name |-> "data", type |-> "bytes"] >>

\* C6: the field list of a decompacted package is decided by the resolved
\* version alone: the 7 base fields for Legacy, a leading version field and the
\* 7 for V1 (8 fields), a leading version field, the 7 and a trailing salt
\* field for V2 (9 fields), whatever slot 17 and the other slots hold.
C6_FieldListByVersion ==
  Succeeded =>
     /\ DOMAIN out.sig.types = {"Attest"}
     /\ Resolved = Num(Legacy) => out.sig.types.Attest = ExpectedBase
     /\ Resolved = Num(Version1) =>
          out.sig.types.Attest = <<[name |-> "version", type |-> "uint16"]>> \o ExpectedBase
     /\ Resolved = Num(Version2) =>
          out.sig.types.Attest =
            <<[name |-> "version", type |-> "uint16"]>> \o ExpectedBase \o <<[name |-> "salt", type |-> "bytes32"]>>
     /\ Len(out.sig.types.Attest) = 7 + (IF Resolved = Num(Legacy) THEN 0 ELSE Resolved.n)

C6_Witness ==
  /\ pc = "uncompacted" /\ ~HasPackage
  /\ Slot(compacted, 16) = Num(Version2) /\ Slot(compacted, 17) = Undef
  /\ ~IsThrow(out) /\ Len(out.sig.types.Attest) = 9 /\ out.sig.types.Attest[9].name = "salt"

\* C7: a tuple whose slot 16 is absent, undefined, null or 0 decodes with
\* sig.version Legacy and primaryType "Attestation"; primaryType is
\* "Attestation" exactly when the resolved version is Legacy and "Attest" for
\* V1 and V2.
C7_FalsyIsLegacy ==
  Returned =>
     /\ Slot(compacted, 16) \in {Undef, Null, Num(0)} =>
          (~IsThrow(out) /\ out.sig.version = Num(Legacy) /\ out.sig.primaryType = Str("Attestation"))
     /\ ~IsThrow(out) =>
          /\ (out.sig.primaryType = Str("Attestation")) <=> (Resolved = Num(Legacy))
          /\ Resolved \in {Num(Version1), Num(Version2)} => out.sig.primaryType = Str("Attest")

C7_Witness ==
  /\ pc = "decoded" /\ Slot(compacted, 16) = Null
  /\ ~IsThrow(out) /\ out.sig.version = Num(Legacy) /\ out.sig.primaryType = Str("Attestation")

\* the signature of a package, wherever its shape keeps it
SignatureOf(p) == IF IsFlat(p) THEN p.sig ELSE p.sig.signature

\* C8: the tuple compact returns has exactly 18 positions, in the order
\* domain.version, domain.chainId, domain.verifyingContract, r, s, v, signer,
\* uid, schema, recipient or "0", time, expirationTime, refUID or "0",
\* revocable, data, reserved, version, salt, for every version and for flat
\* input, and slot 15 is the number 0.
C8_FixedLayout ==
  Compacted =>
     /\ Len(compacted) = 18
     /\ Slot(compacted, 0) = pkg.sig.domain.version
     /\ Slot(compacted, 1) = pkg.sig.domain.chainId
     /\ Slot(compacted, 2) = pkg.sig.domain.verifyingContract
     /\ Slot(compacted, 3) = SignatureOf(pkg).r
     /\ Slot(compacted, 4) = SignatureOf(pkg).s
     /\ Slot(compacted, 5) = SignatureOf(pkg).v
     /\ Slot(compacted, 6) = pkg.signer
     /\ Slot(compacted, 7) = pkg.sig.uid
     /\ Slot(compacted, 8) = pkg.sig.message.schema
     /\ Slot(compacted, 9) \in {pkg.sig.message.recipient, Str("0")}
     /\ Slot(compacted, 10) = Num(pkg.sig.message.time.n)
     /\ Slot(compacted, 11) = Num(pkg.sig.message.expirationTime.n)
     /\ Slot(compacted, 12) \in {pkg.sig.message.refUID, Str("0")}
     /\ Slot(compacted, 13) = pkg.sig.message.revocable
     /\ Slot(compacted, 14) = pkg.sig.message.data
     /\ Slot(compacted, 15) = Num(0)
     /\ Slot(compacted, 16) = Get(pkg.sig.message, "version")
     /\ Slot(compacted, 17) = Get(pkg.sig.message, "salt")

C8_Witness ==
  /\ pc = "compacted" /\ HasPackage /\ IsFlat(pkg) /\ "version" \notin DOMAIN pkg.sig.message
  /\ Len(compacted) = 18 /\ compacted[17] = Undef /\ compacted[18] = Undef
  /\ compacted[16] = Num(0)

\* the sig compact works on, once it has been normalized
C9_Normalized ==
  Compacted =>
     IF {"v", "r", "s"} \subseteq DOMAIN pkg.sig
       THEN /\ DOMAIN sig = (DOMAIN pkg.sig \ {"v", "r", "s"}) \cup {"version", "signature"}
            /\ sig.version = Num(Version1)
            /\ sig.signature = [v |-> pkg.sig.v, r |-> pkg.sig.r, s |-> pkg.sig.s]
            /\ \A k \in DOMAIN pkg.sig \ {"v", "r", "s"} : sig[k] = pkg.sig[k]
       ELSE sig = pkg.sig

\* C9: the legacy adapter treats a sig as flat exactly when it has the keys v,
\* r and s; for a flat sig it makes a new nested object with version V1 and
\* signature {v, r, s} and every other field as in the input, a nested sig is
\* used as it is, and the caller's package is never changed.
C9_AdapterFrame == [](C9_Normalized) /\ [][pkg' = pkg]_vars

C9_Witness ==
  /\ pc = "compacted" /\ HasPackage /\ IsFlat(pkg)
  /\ "signature" \notin DOMAIN pkg.sig /\ "r" \in DOMAIN pkg.sig
  /\ sig.version = Num(Version1) /\ sig.signature.v = Num(27) /\ sig.uid = pkg.sig.uid

\* the version tag of a package: sig.version of a nested sig, V1 of a flat one
TagOf(p) == IF IsFlat(p) THEN Version1 ELSE p.sig.version.n

\* C10: the version in slot 16 of compact(P) and the version of
\* decompact(compact(P)) are not lower than P's version tag, and in every
\* package decompact returns sig.version, message.version and the version that
\* chose the field list and the primary type are the same tag.
C10_NeverDowngraded ==
  /\ Compacted => (Resolved.t = "number" /\ Resolved.n >= TagOf(pkg))
  /\ (Succeeded /\ HasPackage) => out.sig.version.n >= TagOf(pkg)
  /\ Succeeded =>
       /\ out.sig.version = out.sig.message.version
       /\ out.sig.version = Resolved
====
